---- MODULE Spec2Model ----
(***************************************************************************)
(* Model of the recommendation engine of src/src/api/aiService.js:         *)
(* getTreePlantingRecommendations (the attempt loop over modelsToTry),     *)
(* getTreePlantingRecommendationsWithModel (provider call, extraction of   *)
(* the JSON payload, validation, rupee marker), the validator              *)
(* validateAndCorrectRecommendations and createFallbackRecommendation.     *)
(*                                                                         *)
(* JavaScript strings are sequences of one-character strings; the rupee    *)
(* sign is the character Rupee.  JavaScript numbers are integers here; the *)
(* products with 0.8, 1.2, 0.7, 1.3, 0.05 and the roundings are computed   *)
(* exactly, and the places where IEEE-754 doubles round a tie the other    *)
(* way (for AQI 0..500 and tree counts inside the accepted range) are      *)
(* written out in DoubleTieDown and PercentTieDown.                        *)
(***************************************************************************)
EXTENDS Integers, Sequences, FiniteSets

VARIABLES
    geminiKey,     \* import.meta.env.VITE_GEMINI_KEY is set
    modelsToTry,   \* the ordered list of model identifiers
    aqiData,       \* the AQIData argument of the pass
    pc,            \* position of the pass: start, loop, await, done
    idx,           \* index (1-based) of the model of the running attempt
    calls,         \* indexes of the provider calls made so far, in order
    faults,        \* what ended each finished attempt, in order
    candidate,     \* the value JSON.parse gave in the last attempt
    outcome,       \* pending, returned or threw
    source,        \* where the returned value came from
    aiResponse,    \* the raw text of the last response
    validated,     \* jsonData after validateAndCorrectRecommendations (line 246)
    result,        \* the value the pass returned
    money,         \* formatRupees: the value given to the first call
    shown,         \* formatRupees: the results of the successive calls
    aqi1,          \* tiers: the lower of two AQI values
    aqi2,          \* tiers: the higher of two AQI values
    bands,         \* tiers: the bands computed for aqi1 and aqi2
    probe,         \* fallback generator: its AQIData argument
    built,         \* fallback generator: the record it returned
    revalidated,   \* the validator applied to built
    props,         \* TreeRecommendations: its props aqiData and enabled
    mounted,       \* TreeRecommendations: the effect of the first render has run
    recommendations, \* TreeRecommendations: state, <<>> for null
    loading,       \* TreeRecommendations: state
    error,         \* TreeRecommendations: state, "null" or the message
    hasFetchedRef, \* TreeRecommendations: hasFetchedRef.current
    lastAqiDataRef, \* TreeRecommendations: lastAqiDataRef.current, <<>> for null
    inflight,      \* TreeRecommendations: the calls of the engine not yet settled
    started        \* TreeRecommendations: the number of calls of the engine so far

\* the variables of a pass of getTreePlantingRecommendations
passVars == <<geminiKey, modelsToTry, aqiData, pc, idx, calls, faults,
              candidate, outcome, source, aiResponse, validated, result>>

\* the variables of the calls of formatRupees
currencyVars == <<money, shown>>

\* the variables of the tier computation
tierVars == <<aqi1, aqi2, bands>>

\* the variables of the calls of createFallbackRecommendation
fallbackVars == <<probe, built, revalidated>>

\* the variables of the TreeRecommendations component
componentVars == <<props, mounted, recommendations, loading, error, hasFetchedRef,
                   lastAqiDataRef, inflight, started>>

vars == <<passVars, currencyVars, tierVars, fallbackVars, componentVars>>

-----------------------------------------------------------------------------
(* Bounds of the model.                                                    *)

MaxModels == 2

-----------------------------------------------------------------------------
(* JavaScript strings and numbers.                                         *)

Rupee == "RUPEE"

Undefined == <<"undefined">>

DigitChars == <<"0", "1", "2", "3", "4", "5", "6", "7", "8", "9">>

IsDigit(c) == \E i \in 1..10 : DigitChars[i] = c

DigitVal(c) == (CHOOSE i \in 1..10 : DigitChars[i] = c) - 1

IsSpace(c) == c = " "

RECURSIVE NatToString(_)
NatToString(n) ==
    IF n < 10 THEN <<DigitChars[n + 1]>>
    ELSE NatToString(n \div 10) \o <<DigitChars[(n % 10) + 1]>>

\* Number.prototype.toString of an integer
NumToString(n) == IF n < 0 THEN <<"-">> \o NatToString(-n) ELSE NatToString(n)

RECURSIVE GroupPairs(_)
\* the digits left of the last three, in groups of two from the right
GroupPairs(d) ==
    IF Len(d) <= 2 THEN d
    ELSE GroupPairs(SubSeq(d, 1, Len(d) - 2)) \o <<",">> \o SubSeq(d, Len(d) - 1, Len(d))

\* Number.prototype.toLocaleString('en-IN') of an integer: 3-2-2 grouping
ToLocaleStringEnIN(n) ==
    LET d == NatToString(IF n < 0 THEN -n ELSE n)
        g == IF Len(d) <= 3 THEN d
             ELSE GroupPairs(SubSeq(d, 1, Len(d) - 3)) \o <<",">> \o SubSeq(d, Len(d) - 2, Len(d))
    IN  IF n < 0 THEN <<"-">> \o g ELSE g

RECURSIVE TrimStart(_)
TrimStart(s) == IF s # <<>> /\ IsSpace(Head(s)) THEN TrimStart(Tail(s)) ELSE s

RECURSIVE TrimEnd(_)
TrimEnd(s) ==
    IF s # <<>> /\ IsSpace(s[Len(s)]) THEN TrimEnd(SubSeq(s, 1, Len(s) - 1)) ELSE s

\* String.prototype.trim
Trim(s) == TrimEnd(TrimStart(s))

RECURSIVE DigitsValue(_, _)
\* the value of the longest prefix of digits of s, after acc
DigitsValue(s, acc) ==
    IF s # <<>> /\ IsDigit(Head(s)) THEN DigitsValue(Tail(s), acc * 10 + DigitVal(Head(s)))
    ELSE acc

\* parseInt(s): leading white space, an optional sign, then digits; NaN otherwise.
\* ok is FALSE for NaN.
ParseInt(s) ==
    LET t == TrimStart(s)
        neg == t # <<>> /\ Head(t) = "-"
        u == IF t # <<>> /\ Head(t) \in {"-", "+"} THEN Tail(t) ELSE t
    IN  IF u # <<>> /\ IsDigit(Head(u))
        THEN [ok |-> TRUE, n |-> IF neg THEN -DigitsValue(u, 0) ELSE DigitsValue(u, 0)]
        ELSE [ok |-> FALSE, n |-> 0]

\* parseInt(s) || d
ParseIntOr(s, d) == LET p == ParseInt(s) IN IF p.ok /\ p.n # 0 THEN p.n ELSE d

\* String.prototype.includes for one character
Includes(s, c) == \E i \in 1..Len(s) : s[i] = c

\* lower case of the letters the currency patterns name
Lower(c) ==
    CASE c = "R" -> "r" [] c = "S" -> "s" [] c = "I" -> "i" [] c = "N" -> "n"
      [] c = "U" -> "u" [] c = "D" -> "d" [] OTHER -> c

\* the pattern word w (lower case) matches s at position i, ignoring case
MatchesAt(s, i, w) ==
    /\ i + Len(w) - 1 <= Len(s)
    /\ \A k \in 1..Len(w) : Lower(s[i + k - 1]) = w[k]

\* Math.round(p / q) for p >= 0, q > 0: ties go up
RoundDiv(p, q) == (2 * p + q) \div (2 * q)

Min(a, b) == IF a < b THEN a ELSE b

Max(a, b) == IF a > b THEN a ELSE b

-----------------------------------------------------------------------------
(* The formulas the validator and the fallback generator compute.          *)

CostPerTree == 4000

\* MinMultiplier with 50 in place of 150 in the third tier
MinMultiplierDip(aqi) ==
    IF aqi <= 50 THEN 50 ELSE IF aqi <= 100 THEN 100 ELSE IF aqi <= 150 THEN 50
    ELSE IF aqi <= 200 THEN 200 ELSE IF aqi <= 300 THEN 250 ELSE 300

\* the multiplier of the tier of aqi for the lower end of the band
MinMultiplier(aqi) ==
    IF aqi <= 50 THEN 50 ELSE IF aqi <= 100 THEN 100 ELSE IF aqi <= 150 THEN 150
    ELSE IF aqi <= 200 THEN 200 ELSE IF aqi <= 300 THEN 250 ELSE 300

\* the multiplier of the tier of aqi for the upper end of the band
MaxMultiplier(aqi) ==
    IF aqi <= 50 THEN 100 ELSE IF aqi <= 100 THEN 150 ELSE IF aqi <= 150 THEN 200
    ELSE IF aqi <= 200 THEN 250 ELSE IF aqi <= 300 THEN 300 ELSE 350

ExpectedMinTrees(aqi) == aqi * MinMultiplier(aqi)

ExpectedMaxTrees(aqi) == aqi * MaxMultiplier(aqi)

\* Math.round((expectedMinTrees + expectedMaxTrees) / 2)
CalculatedTrees(aqi) == RoundDiv(ExpectedMinTrees(aqi) + ExpectedMaxTrees(aqi), 2)

\* TreeCountOutOfRange with the lower factor 0.9 in place of 0.8
TreeCountOutOfRangeTight(currentTrees, aqi) ==
    \/ 10 * currentTrees < 9 * ExpectedMinTrees(aqi)
    \/ 10 * currentTrees > 12 * ExpectedMaxTrees(aqi)

\* currentTrees < expectedMinTrees * 0.8 || currentTrees > expectedMaxTrees * 1.2
TreeCountOutOfRange(currentTrees, aqi) ==
    \/ 10 * currentTrees < 8 * ExpectedMinTrees(aqi)
    \/ 10 * currentTrees > 12 * ExpectedMaxTrees(aqi)

\* InvestmentOutOfRange with the upper factor 1.5 in place of 1.3
InvestmentOutOfRangeLoose(currentInvestment, trees) ==
    \/ currentInvestment < trees * ((CostPerTree \div 10) * 7)
    \/ currentInvestment > trees * ((CostPerTree \div 10) * 15)

\* currentInvestment < calculatedInvestment * 0.7 ||
\* currentInvestment > calculatedInvestment * 1.3, for a tree count trees
\* (calculatedInvestment = trees * 4000, so both products are integers)
InvestmentOutOfRange(currentInvestment, trees) ==
    \/ currentInvestment < trees * ((CostPerTree \div 10) * 7)
    \/ currentInvestment > trees * ((CostPerTree \div 10) * 13)

\* ImprovementFactor without the cap Math.min(0.3, ...)
ImprovementFactorUncapped(trees) == 3 * trees

\* Math.min(0.3, (trees / 100000) * 0.3), in millionths
ImprovementFactor(trees) == Min(300000, 3 * trees)

\* the products aqi * (1 - improvementFactor) that are a tie n + 0.5 in exact
\* arithmetic and just below it as IEEE-754 doubles (aqi in 0..500)
DoubleTieDown(aqi, trees) ==
    \/ aqi \in {325, 335, 345, 355, 365} /\ trees >= 100000
    \/ aqi = 300 /\ trees = 65000

\* Math.max(0, Math.round(currentAQI * (1 - improvementFactor)))
ProjectedAQI(aqi, trees) ==
    LET p == aqi * (1000000 - ImprovementFactor(trees))
    IN  Max(0, IF DoubleTieDown(aqi, trees) THEN p \div 1000000 ELSE RoundDiv(p, 1000000))

\* the products improvementFactor * 100 that are a tie in exact arithmetic and
\* just below it as doubles
PercentTieDown(trees) == trees \in {75000, 95000}

\* Math.round(improvementFactor * 100)
ImprovementPercent(trees) ==
    IF PercentTieDown(trees) THEN ImprovementFactor(trees) \div 10000
    ELSE RoundDiv(ImprovementFactor(trees), 10000)

\* Math.min(35, Math.max(20, Math.round((trees / 10000) * 2)))
ReductionPercent(trees) == Min(35, Max(20, RoundDiv(2 * trees, 10000)))

\* Math.min(35, Math.max(20, improvementPercent))
PmReduction(trees) == Min(35, Max(20, ImprovementPercent(trees)))

\* Math.round(investment * 0.05)
Maintenance(investment) == RoundDiv(investment, 20)

\* x.toFixed(1) of a value given in tenths
TenthsToFixed(tenths) ==
    NumToString(tenths \div 10) \o <<".">> \o NumToString(tenths % 10)

\* (trees * 0.025).toFixed(1)
AnnualCarbon(trees) == TenthsToFixed(RoundDiv(trees, 4))

\* (trees * 0.5).toFixed(1)
LifetimeCarbon(trees) == TenthsToFixed(5 * trees)

\* the template string of p and a percent sign
Percent(p) == NumToString(p) \o <<"%">>

\* the template string of p and '% reduction'
PercentReduction(p) == NumToString(p) \o <<"%", " reduction">>

\* the rupee sign and n.toLocaleString('en-IN')
RupeeAmount(n) == <<Rupee>> \o ToLocaleStringEnIN(n)

\* getAQILabel, the same function in the validator and in the fallback generator
GetAQILabel(aqi) ==
    IF aqi <= 50 THEN "Good" ELSE IF aqi <= 100 THEN "Moderate"
    ELSE IF aqi <= 150 THEN "Unhealthy for Sensitive Groups"
    ELSE IF aqi <= 200 THEN "Unhealthy"
    ELSE IF aqi <= 300 THEN "Very Unhealthy" ELSE "Hazardous"

\* hours.map(...): five entries, hour i at currentAQI + variation[i], not below 0
SynthesizeForecast(currentAQI, variation) ==
    [kind |-> "array",
     items |-> [i \in 1..5 |->
        LET hourAqi == Max(0, currentAQI + variation[i])
        IN  [time |-> NumToString(i) \o <<IF i > 1 THEN " hours from now" ELSE " hour from now">>,
             aqi |-> hourAqi,
             level |-> GetAQILabel(hourAqi)]]]

-----------------------------------------------------------------------------
(* Currency markers.                                                       *)

RECURSIVE StripFrom(_, _)
\* s.replace(/RUPEE|,|Rs|INR/gi, '') from position i on
StripFrom(s, i) ==
    IF i > Len(s) THEN <<>>
    ELSE IF s[i] = Rupee \/ s[i] = "," THEN StripFrom(s, i + 1)
    ELSE IF MatchesAt(s, i, <<"r", "s">>) THEN StripFrom(s, i + 2)
    ELSE IF MatchesAt(s, i, <<"i", "n", "r">>) THEN StripFrom(s, i + 3)
    ELSE <<s[i]>> \o StripFrom(s, i + 1)

\* the replace of lines 324 and 364
StripRupeeMarkers(s) == StripFrom(s, 1)

RECURSIVE StripForeignFrom(_, _)
\* s.replace(/[$]|USD|INR/gi, '') from position i on
StripForeignFrom(s, i) ==
    IF i > Len(s) THEN <<>>
    ELSE IF s[i] = "$" THEN StripForeignFrom(s, i + 1)
    ELSE IF MatchesAt(s, i, <<"u", "s", "d">>) THEN StripForeignFrom(s, i + 3)
    ELSE IF MatchesAt(s, i, <<"i", "n", "r">>) THEN StripForeignFrom(s, i + 3)
    ELSE <<s[i]>> \o StripForeignFrom(s, i + 1)

\* a string the || and ! operators take for false
Falsy(s) == s = Undefined \/ s = <<>>

NotAvailable == <<"N", "/", "A">>

\* ensureRupeeSymbol(value)
EnsureRupeeSymbol(value) ==
    IF Falsy(value) \/ value = NotAvailable THEN NotAvailable
    ELSE IF Includes(value, Rupee) THEN value
    ELSE <<Rupee>> \o Trim(StripForeignFrom(value, 1))

\* parseInt(String(amount || '0').replace(...).trim()) || 0
CurrentInvestment(amount) ==
    ParseIntOr(Trim(StripRupeeMarkers(IF Falsy(amount) THEN <<"0">> ELSE amount)), 0)

\* parseInt(String(amount).replace(...)) || calculatedInvestment
InvestmentNum(amount, calculatedInvestment) ==
    ParseIntOr(StripRupeeMarkers(amount), calculatedInvestment)

-----------------------------------------------------------------------------
(* formatRupees of src/src/utils/currency.js, which the recommendation     *)
(* panel applies to investmentAmount and to implementation.maintenance.    *)

RECURSIVE StripCurrencyFrom(_, _)
\* s.replace(/[RUPEE$]|USD|INR/gi, '') from position i on: one pass, left to
\* right, over the string as it was
StripCurrencyFrom(s, i) ==
    IF i > Len(s) THEN <<>>
    ELSE IF s[i] = Rupee \/ s[i] = "$" THEN StripCurrencyFrom(s, i + 1)
    ELSE IF MatchesAt(s, i, <<"u", "s", "d">>) THEN StripCurrencyFrom(s, i + 3)
    ELSE IF MatchesAt(s, i, <<"i", "n", "r">>) THEN StripCurrencyFrom(s, i + 3)
    ELSE <<s[i]>> \o StripCurrencyFrom(s, i + 1)

\* the characters valueStr.replace(/[, ]/g, '') keeps
NotCommaOrSpace(c) == c # "," /\ c # " "

\* parseFloat(s) of a string without a decimal point, an exponent or the word
\* Infinity: leading white space, an optional sign, then the longest run of
\* digits; NaN (ok = FALSE) when there is no digit
ParseFloat(s) ==
    LET t == TrimStart(s)
        neg == t # <<>> /\ Head(t) = "-"
        u == IF t # <<>> /\ Head(t) \in {"-", "+"} THEN Tail(t) ELSE t
    IN  IF u # <<>> /\ IsDigit(Head(u))
        THEN [ok |-> TRUE, n |-> IF neg THEN -DigitsValue(u, 0) ELSE DigitsValue(u, 0)]
        ELSE [ok |-> FALSE, n |-> 0]

\* formatRupees(value)
FormatRupees(value) ==
    IF Falsy(value) \/ value = NotAvailable THEN NotAvailable
    ELSE LET valueStr == Trim(StripCurrencyFrom(value, 1))
             cleanValue == SelectSeq(valueStr, NotCommaOrSpace)
             numValue == ParseFloat(cleanValue)
         IN  IF ~numValue.ok
             THEN IF ~Includes(valueStr, Rupee) THEN <<Rupee>> \o valueStr ELSE valueStr
             ELSE <<Rupee>> \o ToLocaleStringEnIN(numValue.n)

-----------------------------------------------------------------------------
(* Parsed JSON values.  Every value has the same fields; kind tells an     *)
(* object from a number and from null, hasRecs whether the object has a    *)
(* recommendations member, and present whether a nested object is there.   *)

MissingForecast == [kind |-> "missing", items |-> <<>>]

NoCarbon ==
    [present |-> FALSE, annualCarbonSequestration |-> Undefined,
     lifetimeCarbonSequestration |-> Undefined, airPollutionReduction |-> Undefined]

NoComparison ==
    [present |-> FALSE, before |-> [aqi |-> 0, pm25 |-> 0, pm10 |-> 0], hasAfter |-> FALSE,
     after |-> [aqi |-> Undefined, pm25 |-> Undefined, pm10 |-> Undefined],
     improvement |-> Undefined]

NoImplementation ==
    [present |-> FALSE, phases |-> "", timeline |-> "", maintenance |-> Undefined]

NoRecommendations ==
    [treeTypes |-> "", numberOfTrees |-> Undefined, investmentAmount |-> Undefined,
     roi |-> "", carbonAnalysis |-> NoCarbon, comparison |-> NoComparison,
     humanImpact |-> Undefined, implementation |-> NoImplementation]

NoSummary == [text |-> "", city |-> "", aqi |-> 0, trees |-> 0]

\* an object with no members: {}
EmptyObject ==
    [kind |-> "object", hasRecs |-> FALSE, summary |-> NoSummary,
     hourlyForecast |-> MissingForecast, recommendations |-> NoRecommendations]

\* the JSON value null
NullValue == [EmptyObject EXCEPT !.kind = "null"]

\* a JSON number
NumberValue == [EmptyObject EXCEPT !.kind = "number"]

\* no value: nothing was parsed, nothing was returned
NoValue == [EmptyObject EXCEPT !.kind = "none"]

\* aqiData.aqi || d
AqiOr(data, d) == IF data.hasAqi /\ data.aqi # 0 THEN data.aqi ELSE d

\* aqiData.pm25 || 0 and aqiData.pm10 || 0
PmOr(x) == IF x # 0 THEN x ELSE 0

-----------------------------------------------------------------------------
(* validateAndCorrectRecommendations(data, currentAQI).  variation is the  *)
(* sequence of the five values Math.round((Math.random() - 0.5) * 20).     *)

\* data.recommendations.numberOfTrees after the tree check (lines 306-315)
CorrectedTrees(numberOfTrees, currentAQI) ==
    IF TreeCountOutOfRange(ParseIntOr(numberOfTrees, 0), currentAQI)
    THEN NumToString(CalculatedTrees(currentAQI))
    ELSE numberOfTrees

\* data.recommendations.investmentAmount after the investment check (lines 317-332)
CorrectedInvestment(investmentAmount, finalTreeCount) ==
    IF InvestmentOutOfRange(CurrentInvestment(investmentAmount), finalTreeCount)
    THEN RupeeAmount(finalTreeCount * CostPerTree)
    ELSE investmentAmount

\* lines 334-345
CorrectedCarbon(carbonAnalysis, finalTreeCount) ==
    IF carbonAnalysis.present
    THEN [carbonAnalysis EXCEPT
            !.annualCarbonSequestration = AnnualCarbon(finalTreeCount),
            !.lifetimeCarbonSequestration = LifetimeCarbon(finalTreeCount),
            !.airPollutionReduction = Percent(ReductionPercent(finalTreeCount))]
    ELSE carbonAnalysis

\* CorrectedComparison that also writes the governing AQI into comparison.before
CorrectedComparisonAndBefore(comparison, finalTreeCount, currentAQI) ==
    IF comparison.present /\ comparison.hasAfter
    THEN [comparison EXCEPT
            !.before.aqi = currentAQI,
            !.after.aqi = NumToString(ProjectedAQI(currentAQI, finalTreeCount)),
            !.improvement = Percent(ImprovementPercent(finalTreeCount)),
            !.after.pm25 = PercentReduction(PmReduction(finalTreeCount)),
            !.after.pm10 = PercentReduction(PmReduction(finalTreeCount))]
    ELSE comparison

\* lines 347-360
CorrectedComparison(comparison, finalTreeCount, currentAQI) ==
    IF comparison.present /\ comparison.hasAfter
    THEN [comparison EXCEPT
            !.after.aqi = NumToString(ProjectedAQI(currentAQI, finalTreeCount)),
            !.improvement = Percent(ImprovementPercent(finalTreeCount)),
            !.after.pm25 = PercentReduction(PmReduction(finalTreeCount)),
            !.after.pm10 = PercentReduction(PmReduction(finalTreeCount))]
    ELSE comparison

\* lines 362-367
CorrectedImplementation(implementation, investmentAmount, finalTreeCount) ==
    IF implementation.present
    THEN [implementation EXCEPT
            !.maintenance =
                RupeeAmount(Maintenance(InvestmentNum(investmentAmount,
                                                      finalTreeCount * CostPerTree)))]
    ELSE implementation

\* NeedsForecast taking every forecast for missing
NeedsForecastAlways(hourlyForecast) == TRUE

\* the test of line 370
NeedsForecast(hourlyForecast) ==
    hourlyForecast.kind # "array" \/ Len(hourlyForecast.items) = 0

\* lines 369-381
CorrectedForecast(hourlyForecast, currentAQI, variation) ==
    IF NeedsForecast(hourlyForecast) THEN SynthesizeForecast(currentAQI, variation)
    ELSE hourlyForecast

ValidateAndCorrectRecommendations(data, currentAQI, variation) ==
    IF ~data.hasRecs THEN data
    ELSE
      LET rec == data.recommendations
          trees == CorrectedTrees(rec.numberOfTrees, currentAQI)
          finalTreeCount == ParseIntOr(trees, 0)
          investment == CorrectedInvestment(rec.investmentAmount, finalTreeCount)
      IN  [data EXCEPT
             !.recommendations =
                 [rec EXCEPT
                    !.numberOfTrees = trees,
                    !.investmentAmount = investment,
                    !.carbonAnalysis = CorrectedCarbon(rec.carbonAnalysis, finalTreeCount),
                    !.comparison =
                        CorrectedComparison(rec.comparison, finalTreeCount, currentAQI),
                    !.implementation =
                        CorrectedImplementation(rec.implementation, investment,
                                                finalTreeCount)],
             !.hourlyForecast = CorrectedForecast(data.hourlyForecast, currentAQI, variation)]

\* lines 248-256: the rupee marker on the money fields of a validated value
EnsureRupeeFields(data) ==
    IF ~data.hasRecs THEN data
    ELSE
      [data EXCEPT
         !.recommendations.investmentAmount =
             IF Falsy(@) THEN @ ELSE EnsureRupeeSymbol(@),
         !.recommendations.implementation.maintenance =
             IF ~data.recommendations.implementation.present \/ Falsy(@) THEN @
             ELSE EnsureRupeeSymbol(@)]

-----------------------------------------------------------------------------
(* createFallbackRecommendation(aqiData)                                   *)

\* const currentAQI = aqiData.aqi || 100
FallbackAQI(data) == AqiOr(data, 100)

\* TreesNeeded with 350 and 400 in place of 300 and 350 in the last tier
TreesNeededDiverging(currentAQI) ==
    IF currentAQI <= 50 THEN RoundDiv(currentAQI * 50 + currentAQI * 100, 2)
    ELSE IF currentAQI <= 100 THEN RoundDiv(currentAQI * 100 + currentAQI * 150, 2)
    ELSE IF currentAQI <= 150 THEN RoundDiv(currentAQI * 150 + currentAQI * 200, 2)
    ELSE IF currentAQI <= 200 THEN RoundDiv(currentAQI * 200 + currentAQI * 250, 2)
    ELSE IF currentAQI <= 300 THEN RoundDiv(currentAQI * 250 + currentAQI * 300, 2)
    ELSE RoundDiv(currentAQI * 350 + currentAQI * 400, 2)

\* lines 417-430: the tiers of the fallback generator, midpoint of each band
TreesNeeded(currentAQI) ==
    IF currentAQI <= 50 THEN RoundDiv(currentAQI * 50 + currentAQI * 100, 2)
    ELSE IF currentAQI <= 100 THEN RoundDiv(currentAQI * 100 + currentAQI * 150, 2)
    ELSE IF currentAQI <= 150 THEN RoundDiv(currentAQI * 150 + currentAQI * 200, 2)
    ELSE IF currentAQI <= 200 THEN RoundDiv(currentAQI * 200 + currentAQI * 250, 2)
    ELSE IF currentAQI <= 300 THEN RoundDiv(currentAQI * 250 + currentAQI * 300, 2)
    ELSE RoundDiv(currentAQI * 300 + currentAQI * 350, 2)

CreateFallbackRecommendation(data, variation) ==
    LET currentAQI == FallbackAQI(data)
        treesNeeded == TreesNeeded(currentAQI)
        investment == treesNeeded * CostPerTree
        improvementPercent == ImprovementPercent(treesNeeded)
    IN  [kind |-> "object",
         hasRecs |-> TRUE,
         summary |-> [text |-> "fallback", city |-> data.city, aqi |-> currentAQI,
                      trees |-> treesNeeded],
         hourlyForecast |-> SynthesizeForecast(currentAQI, variation),
         recommendations |->
            [treeTypes |-> "Neem, Peepal, Banyan, Mango, Jamun, Gulmohar",
             numberOfTrees |-> NumToString(treesNeeded),
             investmentAmount |-> RupeeAmount(investment),
             roi |-> "5-7 years",
             carbonAnalysis |->
                [present |-> TRUE,
                 annualCarbonSequestration |-> AnnualCarbon(treesNeeded),
                 lifetimeCarbonSequestration |-> LifetimeCarbon(treesNeeded),
                 airPollutionReduction |-> Percent(ReductionPercent(treesNeeded))],
             comparison |->
                [present |-> TRUE,
                 before |-> [aqi |-> currentAQI, pm25 |-> PmOr(data.pm25),
                             pm10 |-> PmOr(data.pm10)],
                 hasAfter |-> TRUE,
                 after |-> [aqi |-> NumToString(ProjectedAQI(currentAQI, treesNeeded)),
                            pm25 |-> PercentReduction(improvementPercent),
                            pm10 |-> PercentReduction(improvementPercent)],
                 improvement |-> Percent(improvementPercent)],
             humanImpact |-> RupeeAmount(RoundDiv(investment, 5)),
             implementation |->
                [present |-> TRUE, phases |-> "Phase 1, Phase 2, Phase 3",
                 timeline |-> "5 years",
                 maintenance |-> RupeeAmount(Maintenance(investment))]]]

-----------------------------------------------------------------------------
(* The raw text of a response and the extraction of its JSON payload       *)
(* (lines 210-241).  A text is a sequence of tokens: Fence is a run of     *)
(* three backticks, "json" the language tag, " " white space, "{" and "}"  *)
(* braces, "members" the members of the payload object, "null" and "7"     *)
(* the JSON scalars, "prose" any other words.                              *)

Fence == "FENCE"

\* the positions of the token c in text
Positions(text, c) == {i \in 1..Len(text) : text[i] = c}

SetMin(S) == CHOOSE x \in S : \A y \in S : x <= y

SetMax(S) == CHOOSE x \in S : \A y \in S : x >= y

\* the first alternative of aiResponse.match (line 214): the first fence, the
\* next one, and between them the body without the tag and the white space
FenceMatch(text) ==
    LET f == Positions(text, Fence)
    IN  IF Cardinality(f) < 2 THEN [found |-> FALSE, whole |-> <<>>, body |-> <<>>]
        ELSE LET i == SetMin(f)
                 j == SetMin(f \ {i})
                 from == IF i + 1 < j /\ text[i + 1] = "json" THEN i + 2 ELSE i + 1
             IN  [found |-> TRUE, whole |-> SubSeq(text, i, j),
                  body |-> Trim(SubSeq(text, from, j - 1))]

\* the second alternative (line 215): from the first "{" to the last "}"
BraceMatch(text) ==
    LET open == Positions(text, "{")
        close == Positions(text, "}")
    IN  IF open = {} \/ close = {} \/ SetMax(close) < SetMin(open)
        THEN [found |-> FALSE, whole |-> <<>>]
        ELSE [found |-> TRUE, whole |-> SubSeq(text, SetMin(open), SetMax(close))]

NotSpace(c) == ~IsSpace(c)

\* JSON.parse(text) for a response whose object has the members of payload;
\* ok is FALSE when it throws
JSONParse(text, payload) ==
    LET t == SelectSeq(text, NotSpace)
    IN  IF t = <<"{", "members", "}">> THEN [ok |-> TRUE, value |-> payload]
        ELSE IF t = <<"{", "}">> THEN [ok |-> TRUE, value |-> EmptyObject]
        ELSE IF t = <<"null">> THEN [ok |-> TRUE, value |-> NullValue]
        ELSE IF t = <<"7">> THEN [ok |-> TRUE, value |-> NumberValue]
        ELSE [ok |-> FALSE, value |-> NoValue]

\* ParseResponse without the two returns of lines 229 and 239: jsonData stays
\* null after a failed parse and goes on to the validator
ParseResponseNoReturn(text, payload) ==
    LET fence == FenceMatch(text)
        brace == BraceMatch(text)
        jsonString == IF fence.found
                      THEN (IF fence.body # <<>> THEN fence.body ELSE fence.whole)
                      ELSE brace.whole
        first == JSONParse(jsonString, payload)
        whole == JSONParse(text, payload)
    IN  IF (fence.found \/ brace.found) /\ first.ok THEN first
        ELSE IF whole.ok THEN whole
        ELSE [ok |-> TRUE, value |-> NullValue]

\* lines 210-241: the value parsed from the response, or ok = FALSE where the
\* code returns createFallbackRecommendation(aqiData)
ParseResponse(text, payload) ==
    LET fence == FenceMatch(text)
        brace == BraceMatch(text)
        jsonString == IF fence.found
                      THEN (IF fence.body # <<>> THEN fence.body ELSE fence.whole)
                      ELSE brace.whole
        first == JSONParse(jsonString, payload)
    IN  IF (fence.found \/ brace.found) /\ first.ok THEN first
        ELSE JSONParse(text, payload)

\* the provider error is of the "model not found" class (lines 263-268); a
\* message is a sequence of words
IncludesWords(message, words) ==
    \E i \in 1..Len(message) :
        /\ i + Len(words) - 1 <= Len(message)
        /\ \A k \in 1..Len(words) : message[i + k - 1] = words[k]

IsModelNotFound(message) ==
    \/ IncludesWords(message, <<"404">>)
    \/ IncludesWords(message, <<"not", "found">>)
    \/ IncludesWords(message, <<"NOT_FOUND">>)
    \/ IncludesWords(message, <<"does", "not", "exist">>)
    \/ IncludesWords(message, <<"Model">>) /\ IncludesWords(message, <<"not", "available">>)

-----------------------------------------------------------------------------
(* The inputs of a pass: the environment, the AQIData record, the provider *)
(* responses and faults, and the values of Math.random.                    *)

ModelNames == {"gemini-2.5-flash", "gemini-2.0-flash-exp"}

\* the non-empty lists of at most MaxModels identifiers, repeats included
ModelLists == UNION {[1..n -> ModelNames] : n \in 1..MaxModels}

AQIValues == {0, 1, 50, 60, 300, 325}

\* an AQIData record whose aqi is absent (null)
AbsentAQI == [city |-> "Pune", hasAqi |-> FALSE, aqi |-> 0, pm25 |-> 0, pm10 |-> 0]

\* AQIData records: aqi present (0 included) or absent (null)
AQIInputs ==
    {[city |-> "Pune", hasAqi |-> TRUE, aqi |-> a, pm25 |-> 35, pm10 |-> 0] : a \in AQIValues}
    \cup {AbsentAQI}

VariationValues == {-10, 10}

\* five values of Math.round((Math.random() - 0.5) * 20), each in -10..10
Variations == {<<a, b, 0, a, b>> : a, b \in VariationValues}

NoVariation == <<0, 0, 0, 0, 0>>

\* messages of provider errors, as sequences of words
ErrorMessages ==
    {<<"404">>, <<"models/x", "is", "not", "found">>, <<"NOT_FOUND">>,
     <<"model", "does", "not", "exist">>, <<"Model", "x", "not", "available">>,
     <<"model", "not", "available">>, <<"quota", "exceeded">>, <<"API", "key", "not", "valid">>}

\* raw texts whose payload is an object with members
ObjectTexts ==
    {<<Fence, "json", " ", "{", "members", "}", " ", Fence>>,
     <<"prose", " ", "{", " ", "members", " ", "}", " ", "prose">>,
     <<"{", "members", "}">>}

\* raw texts with another JSON value, or with none
OtherTexts ==
    {<<>>, <<"prose">>, <<"{", "prose", "}">>, <<"prose", "{", "members">>,
     <<Fence, "prose", Fence, " ", "{", "members", "}">>,
     <<Fence, " ", Fence, "{", "members", "}">>,
     <<Fence, "{", "members", "}">>,
     <<"null">>, <<"7">>, <<Fence, "{", "}", Fence>>}

\* candidate forecasts: none, a string, an empty array, three entries, five entries
ForecastEntry(i, aqi) ==
    [time |-> NumToString(i) \o <<"h">>, aqi |-> aqi, level |-> GetAQILabel(aqi)]

CandidateForecasts(aqi) ==
    {MissingForecast,
     [kind |-> "string", items |-> <<>>],
     [kind |-> "array", items |-> <<>>],
     [kind |-> "array", items |-> [i \in 1..3 |-> ForecastEntry(i, aqi + i)]],
     [kind |-> "array", items |-> [i \in 1..5 |-> ForecastEntry(i, aqi + i)]]}

\* which nested objects a candidate has
FullShape == [carbon |-> TRUE, comparison |-> "full", implementation |-> TRUE]

CandidateShapes ==
    {FullShape,
     [FullShape EXCEPT !.carbon = FALSE],
     [FullShape EXCEPT !.comparison = "none"],
     [FullShape EXCEPT !.comparison = "noAfter"],
     [FullShape EXCEPT !.implementation = FALSE],
     [carbon |-> FALSE, comparison |-> "none", implementation |-> FALSE]}

\* the first and the last tree count the validator accepts for aqi
LowestAccepted(aqi) == (8 * ExpectedMinTrees(aqi) + 9) \div 10

HighestAccepted(aqi) == (12 * ExpectedMaxTrees(aqi)) \div 10

\* candidate values of numberOfTrees: missing, not a number, the midpoint, the
\* ends of the accepted range and their neighbours outside it
CandidateTrees(aqi) ==
    {Undefined, <<"m", "a", "n", "y">>, NumToString(CalculatedTrees(aqi)),
     NumToString(LowestAccepted(aqi)), NumToString(HighestAccepted(aqi)),
     NumToString(LowestAccepted(aqi) - 1), NumToString(HighestAccepted(aqi) + 1)}

\* an amount with a dollar sign between its digits; the digit after the sign is
\* left out of the largest amounts, whose digits would no longer fit an integer
\* of the model once the sign is removed
DollarInside(c) ==
    IF c < 100000000 THEN NumToString(c) \o <<"$", "5">> ELSE NumToString(c) \o <<"$">>

\* candidate values of investmentAmount for a final tree count t: missing, the
\* exact amount, the ends of the accepted range and their neighbours, amounts
\* with a currency code, amounts with a foreign marker, and the exact amount
\* with the rupee sign and a foreign marker
CandidateInvestments(t) ==
    LET c == t * CostPerTree
    IN  {Undefined, RupeeAmount(c),
         NumToString((c \div 10) * 7), NumToString((c \div 10) * 13),
         NumToString((c \div 10) * 7 - 1), NumToString((c \div 10) * 13 + 1),
         <<"R", "s", " ">> \o NumToString(c), <<"I", "N", "R", " ">> \o ToLocaleStringEnIN(c),
         <<"$">> \o NumToString(c), NumToString(c) \o <<" ", "U", "S", "D">>,
         RupeeAmount(c) \o <<"$">>,
         DollarInside(c)}

Payload(trees, investment, shape, forecast, aqi) ==
    [kind |-> "object",
     hasRecs |-> TRUE,
     summary |-> [text |-> "model", city |-> "", aqi |-> 0, trees |-> 0],
     hourlyForecast |-> forecast,
     recommendations |->
        [treeTypes |-> "Neem, Arjun",
         numberOfTrees |-> trees,
         investmentAmount |-> investment,
         roi |-> "3-5 years",
         carbonAnalysis |->
            IF shape.carbon
            THEN [present |-> TRUE, annualCarbonSequestration |-> <<"1", "2">>,
                  lifetimeCarbonSequestration |-> <<"9", "9">>,
                  airPollutionReduction |-> <<"9", "0", "%">>]
            ELSE NoCarbon,
         comparison |->
            IF shape.comparison = "none" THEN NoComparison
            ELSE [present |-> TRUE,
                  before |-> [aqi |-> aqi, pm25 |-> 35, pm10 |-> 0],
                  hasAfter |-> shape.comparison = "full",
                  after |-> IF shape.comparison = "full"
                            THEN [aqi |-> NumToString(aqi + 5), pm25 |-> <<"5", "0", "%">>,
                                  pm10 |-> <<"5", "0", "%">>]
                            ELSE NoComparison.after,
                  improvement |-> <<"5", "0", "%">>],
         humanImpact |-> <<"prose">>,
         implementation |->
            IF shape.implementation
            THEN [present |-> TRUE, phases |-> "Phase A, Phase B", timeline |-> "3 years",
                  maintenance |-> <<"$", "1", "0", "0">>]
            ELSE NoImplementation]]

\* how far the comparison.before.aqi of a response can lie from the AQI of the
\* request
StaleAQI == 7

\* the tree count the validator ends with for a candidate value
FinalTreeCount(trees, aqi) == ParseIntOr(CorrectedTrees(trees, aqi), 0)

\* the candidate objects a response can carry for aqi: every tree value with
\* every investment value; every shape with every forecast; objects with a
\* forecast and no recommendations; and an object whose comparison.before.aqi
\* is not the AQI of the request
Candidates(aqi) ==
    {Payload(t, i, FullShape, f, aqi) :
        t \in CandidateTrees(aqi),
        i \in UNION {CandidateInvestments(FinalTreeCount(u, aqi)) : u \in CandidateTrees(aqi)},
        f \in {[kind |-> "array", items |-> [k \in 1..5 |-> ForecastEntry(k, aqi)]]}}
    \cup
    {Payload(NumToString(CalculatedTrees(aqi)), i, sh, f, aqi) :
        i \in {RupeeAmount(CalculatedTrees(aqi) * CostPerTree),
               DollarInside(CalculatedTrees(aqi) * CostPerTree)},
        sh \in CandidateShapes,
        f \in CandidateForecasts(aqi)}
    \cup
    {[EmptyObject EXCEPT !.hourlyForecast = f] : f \in CandidateForecasts(aqi)}
    \cup
    {[Payload(NumToString(CalculatedTrees(aqi)),
              RupeeAmount(CalculatedTrees(aqi) * CostPerTree), FullShape,
              [kind |-> "array", items |-> [k \in 1..5 |-> ForecastEntry(k, aqi)]], aqi)
        EXCEPT !.recommendations.comparison.before.aqi = aqi + StaleAQI]}

-----------------------------------------------------------------------------
(* The pass: getTreePlantingRecommendations and, per attempt,              *)
(* getTreePlantingRecommendationsWithModel.                                *)

\* no response has arrived
NoResponse == <<"(no response)">>

\* IsLastModel never taking a model for the last
IsLastModelNever(models, i) == FALSE

\* the test of line 39: the failed model is the last of the list
IsLastModel(models, i) == models[i] = models[Len(models)]

\* const currentAQI = aqiData.aqi || 0 (line 58)
CurrentAQI(data) == AqiOr(data, 0)

\* what the catch of lines 259-275 throws on: the kind of the fault
FaultKind(message) == IF IsModelNotFound(message) THEN "model-not-found" ELSE "other"

\* no call of formatRupees is under way
CurrencyIdle == money = <<>> /\ shown = <<>>

\* no tier computation is under way
TierIdle == aqi1 = 0 /\ aqi2 = 0 /\ bands = <<>>

\* no call of createFallbackRecommendation outside a pass is under way
FallbackIdle == probe = AbsentAQI /\ built = NoValue /\ revalidated = NoValue

\* no TreeRecommendations component is rendered
ComponentIdle ==
    /\ props = [aqiData |-> AbsentAQI, enabled |-> FALSE]
    /\ mounted = FALSE
    /\ recommendations = <<>>
    /\ loading = FALSE
    /\ error = "null"
    /\ hasFetchedRef = FALSE
    /\ lastAqiDataRef = <<>>
    /\ inflight = {}
    /\ started = 0

\* the variables outside the pass
unitVars == <<currencyVars, tierVars, fallbackVars, componentVars>>

Init ==
    /\ geminiKey \in BOOLEAN
    /\ modelsToTry \in ModelLists
    /\ aqiData \in AQIInputs
    /\ pc = "start"
    /\ idx = 0
    /\ calls = <<>>
    /\ faults = <<>>
    /\ candidate = NoValue
    /\ outcome = "pending"
    /\ source = "none"
    /\ aiResponse = NoResponse
    /\ validated = NoValue
    /\ result = NoValue
    /\ CurrencyIdle
    /\ TierIdle
    /\ FallbackIdle
    /\ ComponentIdle

\* the pass returns value
Return(value, from) ==
    /\ pc' = "done"
    /\ outcome' = "returned"
    /\ source' = from
    /\ result' = value

\* CatchAttempt rethrowing after the last model instead of returning the
\* fallback record
CatchAttemptRethrow(variation) ==
    IF IsLastModel(modelsToTry, idx)
    THEN /\ pc' = "done"
         /\ outcome' = "threw"
         /\ source' = "provider-error"
         /\ UNCHANGED <<idx, result>>
    ELSE /\ pc' = "loop"
         /\ idx' = idx + 1
         /\ UNCHANGED <<outcome, source, result>>

\* the catch of lines 35-45: the fallback record after the last model, the
\* next model otherwise
CatchAttempt(variation) ==
    IF IsLastModel(modelsToTry, idx)
    THEN /\ Return(CreateFallbackRecommendation(aqiData, variation), "fallback")
         /\ UNCHANGED idx
    ELSE /\ pc' = "loop"
         /\ idx' = idx + 1
         /\ UNCHANGED <<outcome, source, result>>

\* Start without the credential check of lines 14-16
StartWithoutCheck ==
    /\ pc = "start"
    /\ pc' = "loop"
    /\ idx' = 1
    /\ UNCHANGED <<geminiKey, modelsToTry, aqiData, calls, faults, candidate, outcome,
                   source, aiResponse, validated, result>>
    /\ UNCHANGED unitVars

\* lines 11-31: the credential check, then the first model of the list
Start ==
    /\ pc = "start"
    /\ IF ~geminiKey
       THEN /\ pc' = "done"
            /\ outcome' = "threw"
            /\ source' = "missing-credential"
            /\ UNCHANGED idx
       ELSE /\ pc' = "loop"
            /\ idx' = 1
            /\ UNCHANGED <<outcome, source>>
    /\ UNCHANGED <<geminiKey, modelsToTry, aqiData, calls, faults, candidate,
                   aiResponse, validated, result>>
    /\ UNCHANGED unitVars

\* lines 33-34 and 56-195: the attempt for modelsToTry[idx] calls the provider
CallProvider ==
    /\ pc = "loop"
    /\ idx <= Len(modelsToTry)
    /\ pc' = "await"
    /\ calls' = Append(calls, idx)
    /\ UNCHANGED <<geminiKey, modelsToTry, aqiData, idx, faults, candidate, outcome,
                   source, aiResponse, validated, result>>
    /\ UNCHANGED unitVars

\* the provider call throws: lines 259-275 rethrow, lines 35-45 catch
ProviderThrows ==
    /\ pc = "await"
    /\ \E message \in ErrorMessages, variation \in Variations :
        /\ faults' = Append(faults, FaultKind(message))
        /\ CatchAttempt(variation)
    /\ UNCHANGED <<geminiKey, modelsToTry, aqiData, calls, candidate, aiResponse,
                   validated>>
    /\ UNCHANGED unitVars

\* the values of Math.random a response needs
VariationsFor(parsed) ==
    IF ~parsed.ok \/ parsed.value.kind = "null"
       \/ (parsed.value.hasRecs /\ NeedsForecast(parsed.value.hourlyForecast))
    THEN Variations ELSE {NoVariation}

\* the responses of the provider for aqi, each a raw text and the object its
\* "members" stand for: every candidate in a fenced block, one candidate in
\* every text that carries an object, and the texts that carry none
Responses(aqi) ==
    {<<<<Fence, "json", " ", "{", "members", "}", " ", Fence>>, c>> : c \in Candidates(aqi)}
    \cup {<<t, Payload(NumToString(CalculatedTrees(aqi)),
                       RupeeAmount(CalculatedTrees(aqi) * CostPerTree),
                       FullShape, MissingForecast, aqi)>> : t \in ObjectTexts}
    \cup {<<t, EmptyObject>> : t \in OtherTexts}

\* the provider call returns text: lines 197-258.  No parseable JSON returns the
\* fallback record; JSON null makes line 282 throw, which lines 259-275 rethrow
\* and lines 35-45 catch; any other value is validated and returned.
ProviderReturns ==
    /\ pc = "await"
    /\ \E response \in Responses(CurrentAQI(aqiData)) :
         LET parsed == ParseResponse(response[1], response[2])
         IN  \E variation \in VariationsFor(parsed) :
               /\ aiResponse' = response[1]
               /\ candidate' = parsed.value
               /\ IF ~parsed.ok
                  THEN /\ faults' = Append(faults, "no-json")
                       /\ Return(CreateFallbackRecommendation(aqiData, variation), "fallback")
                       /\ UNCHANGED <<idx, validated>>
                  ELSE IF parsed.value.kind = "null"
                  THEN /\ faults' = Append(faults, "type-error")
                       /\ CatchAttempt(variation)
                       /\ UNCHANGED validated
                  ELSE /\ faults' = Append(faults, "none")
                       /\ validated' = ValidateAndCorrectRecommendations(
                                           parsed.value, CurrentAQI(aqiData), variation)
                       /\ Return(EnsureRupeeFields(validated'), "validated")
                       /\ UNCHANGED idx
    /\ UNCHANGED <<geminiKey, modelsToTry, aqiData, calls>>
    /\ UNCHANGED unitVars

Next == Start \/ CallProvider \/ ProviderThrows \/ ProviderReturns

Spec == Init /\ [][Next]_vars

\* the await of line 34 ends: the provider call settled, by ProviderThrows or
\* by ProviderReturns, and the pass went on to the next model or returned
Settles == pc = "await" /\ pc' \in {"loop", "done"}

\* the pass under the scheduling of an async function: it runs when it is
\* called, it calls the provider when the loop reaches a model, and it resumes
\* when the awaited provider call settles
LiveSpec ==
    /\ Init
    /\ [][Next]_vars
    /\ WF_vars(Start)
    /\ WF_vars(CallProvider)
    /\ WF_pc(Settles)

-----------------------------------------------------------------------------
(* Calls of formatRupees on its own: the first on a money value, each next *)
(* one on the result of the one before.                                    *)

\* the numbers of the money values
MoneyNumbers == {0, 5, 1234, 100000, 30000000}

\* money values with a number: plain, grouped, with the rupee sign, with a
\* foreign marker or a currency code before or after, negative, with a unit
NumericMoney(n) ==
    {NumToString(n), ToLocaleStringEnIN(n), RupeeAmount(n),
     <<"$">> \o NumToString(n), NumToString(n) \o <<" ", "U", "S", "D">>,
     <<"I", "N", "R", " ">> \o ToLocaleStringEnIN(n), <<"R", "s", " ">> \o NumToString(n),
     <<"-">> \o NumToString(n + 1), NumToString(n) \o <<" ", "p", "a">>,
     NumToString(n) \o <<" ", "U", "U", "S", "D", "S", "D">>}

\* money values without a number: missing, empty, the placeholder, words,
\* lone markers, and tokens inside which another token or marker stands
OtherMoney ==
    {Undefined, <<>>, NotAvailable, <<"f", "r", "e", "e">>, <<" ", "T", "B", "D", " ">>,
     <<"$">>, <<Rupee>>, <<Rupee, " ", "T", "B", "D">>, <<"U", "S", "D">>, <<"R", "s">>,
     <<"u", "s", "d", " ", "t", "b", "d">>,
     <<"U", "U", "S", "D", "S", "D">>, <<"I", "I", "N", "R", "N", "R">>,
     <<"U", "$", "S", "D">>, <<"I", "N", Rupee, "R">>, <<"U", "I", "N", "R", "S", "D">>}

MoneyStrings == OtherMoney \cup UNION {NumericMoney(n) : n \in MoneyNumbers}

\* the number of successive calls of formatRupees
MaxFormatCalls == 2

\* no pass is under way
PassIdle ==
    /\ geminiKey = FALSE
    /\ modelsToTry = <<"gemini-2.5-flash">>
    /\ aqiData = AbsentAQI
    /\ pc = "idle"
    /\ idx = 0
    /\ calls = <<>>
    /\ faults = <<>>
    /\ candidate = NoValue
    /\ outcome = "pending"
    /\ source = "none"
    /\ aiResponse = NoResponse
    /\ validated = NoValue
    /\ result = NoValue

CurrencyInit ==
    /\ money \in MoneyStrings
    /\ shown = <<>>
    /\ PassIdle
    /\ TierIdle
    /\ FallbackIdle
    /\ ComponentIdle

\* formatRupees is called on money, then on its own result
FormatRupeesCall ==
    /\ Len(shown) < MaxFormatCalls
    /\ shown' = Append(shown, FormatRupees(IF shown = <<>> THEN money ELSE shown[Len(shown)]))
    /\ UNCHANGED <<money, passVars, tierVars, fallbackVars, componentVars>>

CurrencyNext == FormatRupeesCall

CurrencySpec == CurrencyInit /\ [][CurrencyNext]_vars

-----------------------------------------------------------------------------
(* The tier computation of lines 284-304 on its own, for two AQI values.   *)

\* the largest AQI of the tier computation
MaxAQI == 310

TierInit ==
    /\ aqi1 \in 0..MaxAQI
    /\ aqi2 \in (aqi1 + 1)..MaxAQI
    /\ bands = <<>>
    /\ PassIdle
    /\ CurrencyIdle
    /\ FallbackIdle
    /\ ComponentIdle

\* lines 285-304 for aqi1 and for aqi2
ExpectedTrees ==
    /\ bands = <<>>
    /\ bands' = <<[expectedMinTrees |-> ExpectedMinTrees(aqi1),
                   expectedMaxTrees |-> ExpectedMaxTrees(aqi1)],
                  [expectedMinTrees |-> ExpectedMinTrees(aqi2),
                   expectedMaxTrees |-> ExpectedMaxTrees(aqi2)]>>
    /\ UNCHANGED <<aqi1, aqi2, passVars, currencyVars, fallbackVars, componentVars>>

TierNext == ExpectedTrees

TierSpec == TierInit /\ [][TierNext]_vars

-----------------------------------------------------------------------------
(* createFallbackRecommendation on its own, for every AQI up to MaxAQI,    *)
(* and validateAndCorrectRecommendations applied to the record it built.   *)

\* AQIData records with every AQI of 0..MaxAQI, and the one without AQI
ProbeInputs ==
    {[city |-> "Pune", hasAqi |-> TRUE, aqi |-> a, pm25 |-> 35, pm10 |-> 0] : a \in 0..MaxAQI}
    \cup {AbsentAQI}

FallbackInit ==
    /\ probe \in ProbeInputs
    /\ built = NoValue
    /\ revalidated = NoValue
    /\ PassIdle
    /\ CurrencyIdle
    /\ TierIdle
    /\ ComponentIdle

\* createFallbackRecommendation(probe)
BuildFallback ==
    /\ built = NoValue
    /\ \E variation \in Variations : built' = CreateFallbackRecommendation(probe, variation)
    /\ UNCHANGED <<probe, revalidated, passVars, currencyVars, tierVars, componentVars>>

\* validateAndCorrectRecommendations(built, probe.aqi || 0)
Revalidate ==
    /\ built # NoValue
    /\ revalidated = NoValue
    /\ \E variation \in Variations :
         revalidated' = ValidateAndCorrectRecommendations(built, CurrentAQI(probe), variation)
    /\ UNCHANGED <<probe, built, passVars, currencyVars, tierVars, componentVars>>

FallbackNext == BuildFallback \/ Revalidate

FallbackSpec == FallbackInit /\ [][FallbackNext]_vars

-----------------------------------------------------------------------------
(* Calls of validateAndCorrectRecommendations on its own: on every         *)
(* candidate a response can carry for the AQI of aqiData, and on objects    *)
(* without recommendations.                                                 *)

ValidatorInit ==
    /\ aqiData \in AQIInputs
    /\ candidate \in Candidates(CurrentAQI(aqiData)) \cup {EmptyObject}
    /\ geminiKey = FALSE
    /\ modelsToTry = <<"gemini-2.5-flash">>
    /\ pc = "idle"
    /\ idx = 0
    /\ calls = <<>>
    /\ faults = <<>>
    /\ outcome = "pending"
    /\ source = "none"
    /\ aiResponse = NoResponse
    /\ validated = NoValue
    /\ result = NoValue
    /\ CurrencyIdle
    /\ TierIdle
    /\ FallbackIdle
    /\ ComponentIdle

\* validateAndCorrectRecommendations(candidate, aqiData.aqi || 0) (line 246)
ValidateCandidate ==
    /\ source = "none"
    /\ \E variation \in (IF candidate.hasRecs /\ NeedsForecast(candidate.hourlyForecast)
                          THEN Variations ELSE {NoVariation}) :
         validated' = ValidateAndCorrectRecommendations(candidate, CurrentAQI(aqiData),
                                                        variation)
    /\ source' = "validated"
    /\ UNCHANGED <<geminiKey, modelsToTry, aqiData, pc, idx, calls, faults, candidate,
                   outcome, aiResponse, result>>
    /\ UNCHANGED unitVars

ValidatorNext == ValidateCandidate

ValidatorSpec == ValidatorInit /\ [][ValidatorNext]_vars

-----------------------------------------------------------------------------
(* The TreeRecommendations component of                                    *)
(* src/src/components/TreeRecommendations.jsx: its state, its two refs, the *)
(* effect on the props aqiData.city, aqiData.aqi and enabled, the Refresh   *)
(* button, and the calls of getTreePlantingRecommendations it awaits.  A    *)
(* call settles by returning the record for the AQIData it was given, here  *)
(* that AQIData, or, without the credential, by rejecting.  The component   *)
(* has no cleanup function, so nothing happens to a call when the props     *)
(* change.                                                                  *)

\* the number of calls of the engine one component makes
MaxFetches == 3

\* the AQIData values of the props: two with the same city and AQI, one with
\* another AQI, and one whose aqi is null
ComponentData ==
    {[city |-> "Pune", hasAqi |-> TRUE, aqi |-> 60, pm25 |-> 35, pm10 |-> 0],
     [city |-> "Pune", hasAqi |-> TRUE, aqi |-> 60, pm25 |-> 40, pm10 |-> 0],
     [city |-> "Pune", hasAqi |-> TRUE, aqi |-> 300, pm25 |-> 35, pm10 |-> 0],
     AbsentAQI}

ComponentProps == [aqiData : ComponentData, enabled : BOOLEAN]

\* `${aqiData.city}-${aqiData.aqi}` (line 19)
DataKey(data) ==
    <<data.city, "-">> \o (IF data.hasAqi THEN NumToString(data.aqi) ELSE <<"null">>)

\* the dependencies of the effect (line 52)
Deps(p) == <<DataKey(p.aqiData), p.enabled>>

\* the message of the error of lines 14-16 of the engine
MissingKeyMessage == "Gemini API key is missing. Please check your .env file."

\* the state after useState and useRef (lines 9-13), for any first props; no
\* pass and no other call is modelled alongside
ComponentInit ==
    /\ props \in ComponentProps
    /\ mounted = FALSE
    /\ recommendations = <<>>
    /\ loading = FALSE
    /\ error = "null"
    /\ hasFetchedRef = FALSE
    /\ lastAqiDataRef = <<>>
    /\ inflight = {}
    /\ started = 0
    /\ geminiKey \in BOOLEAN
    /\ modelsToTry = <<"gemini-2.5-flash">>
    /\ aqiData = AbsentAQI
    /\ pc = "idle"
    /\ idx = 0
    /\ calls = <<>>
    /\ faults = <<>>
    /\ candidate = NoValue
    /\ outcome = "pending"
    /\ source = "none"
    /\ aiResponse = NoResponse
    /\ validated = NoValue
    /\ result = NoValue
    /\ CurrencyIdle
    /\ TierIdle
    /\ FallbackIdle

\* lines 29-31 and 34, and lines 56-58 and 61: the three state updates and the
\* call of the engine with data
StartFetch(data, by) ==
    /\ started < MaxFetches
    /\ loading' = TRUE
    /\ error' = "null"
    /\ recommendations' = <<>>
    /\ inflight' = inflight \cup {[id |-> started + 1, aqiData |-> data, by |-> by]}
    /\ started' = started + 1

\* the effect of lines 15-52 for the props p
RunEffect(p) ==
    IF p.enabled /\ p.aqiData.hasAqi
    THEN LET dataKey == DataKey(p.aqiData)
             fetched == IF lastAqiDataRef # dataKey THEN FALSE ELSE hasFetchedRef
         IN  /\ lastAqiDataRef' = dataKey
             /\ IF ~fetched
                THEN /\ hasFetchedRef' = TRUE
                     /\ StartFetch(p.aqiData, "effect")
                ELSE /\ hasFetchedRef' = fetched
                     /\ UNCHANGED <<recommendations, loading, error, inflight, started>>
    ELSE IF ~p.enabled
    THEN /\ recommendations' = <<>>
         /\ hasFetchedRef' = FALSE
         /\ lastAqiDataRef' = <<>>
         /\ UNCHANGED <<loading, error, inflight, started>>
    ELSE UNCHANGED <<recommendations, loading, error, hasFetchedRef, lastAqiDataRef,
                     inflight, started>>

\* the first render: the effect runs for the first props
Mount ==
    /\ ~mounted
    /\ mounted' = TRUE
    /\ RunEffect(props)
    /\ UNCHANGED <<props, passVars, currencyVars, tierVars, fallbackVars>>

\* the parent renders the component with other props: the effect runs when
\* the city, the AQI or enabled changed
Rerender ==
    /\ mounted
    /\ \E p \in ComponentProps \ {props} :
         /\ props' = p
         /\ IF Deps(p) # Deps(props) THEN RunEffect(p)
            ELSE UNCHANGED <<recommendations, loading, error, hasFetchedRef,
                             lastAqiDataRef, inflight, started>>
    /\ UNCHANGED <<mounted, passVars, currencyVars, tierVars, fallbackVars>>

\* a click on Refresh (lines 54-70 up to the await): the button is rendered
\* when line 72 does not return null and is disabled while loading
FetchRecommendations ==
    /\ mounted
    /\ props.enabled /\ props.aqiData.hasAqi
    /\ ~loading
    /\ hasFetchedRef' = FALSE
    /\ StartFetch(props.aqiData, "refresh")
    /\ UNCHANGED <<props, mounted, lastAqiDataRef, passVars, currencyVars, tierVars,
                   fallbackVars>>

\* a call of the engine returns: lines 35 and 40, or lines 62-63 and 68
FetchResolves ==
    /\ geminiKey
    /\ \E f \in inflight :
         /\ inflight' = inflight \ {f}
         /\ recommendations' = <<f.aqiData>>
         /\ hasFetchedRef' = IF f.by = "refresh" THEN TRUE ELSE hasFetchedRef
         /\ loading' = FALSE
    /\ UNCHANGED <<props, mounted, error, lastAqiDataRef, started, passVars,
                   currencyVars, tierVars, fallbackVars>>

\* a call of the engine rejects, which it does for want of the credential:
\* lines 37-38 and 40, or lines 65-66 and 68
FetchRejects ==
    /\ ~geminiKey
    /\ \E f \in inflight :
         /\ inflight' = inflight \ {f}
         /\ error' = MissingKeyMessage
         /\ hasFetchedRef' = FALSE
         /\ loading' = FALSE
    /\ UNCHANGED <<props, mounted, recommendations, lastAqiDataRef, started, passVars,
                   currencyVars, tierVars, fallbackVars>>

ComponentNext == Mount \/ Rerender \/ FetchRecommendations \/ FetchResolves \/ FetchRejects

ComponentSpec == ComponentInit /\ [][ComponentNext]_vars

-----------------------------------------------------------------------------
(* Properties of the pass.                                                 *)

\* the value is a record createFallbackRecommendation(aqiData) can return
IsFallbackRecord(value) ==
    \E variation \in Variations : value = CreateFallbackRecommendation(aqiData, variation)

ReturnedFallback ==
    /\ pc = "done"
    /\ outcome = "returned"
    /\ source = "fallback"
    /\ IsFallbackRecord(result)

\* the first attempt ended with a provider fault that is not of the "model not
\* found" class
FirstFaultNonRetryable == faults # <<>> /\ faults[1] = "other"

C2_ExhaustionGivesFallback ==
    (faults # <<>> /\ \A i \in 1..Len(faults) : faults[i] = "model-not-found") =>
           /\ outcome # "threw"
           /\ pc = "done" => ReturnedFallback
           /\ pc # "done" => Len(faults) < Len(modelsToTry)

C2_Witness ==
    /\ Len(modelsToTry) = MaxModels
    /\ Len(faults) = MaxModels
    /\ \A i \in 1..Len(faults) : faults[i] = "model-not-found"
    /\ ReturnedFallback

\* the raw text has no parseable JSON: the whole text fails JSON.parse, and no
\* pattern matches or the matched span fails JSON.parse too
Unparseable(text) ==
    /\ text # NoResponse
    /\ ~JSONParse(text, EmptyObject).ok
    /\ LET fence == FenceMatch(text)
           brace == BraceMatch(text)
       IN  IF fence.found
           THEN ~JSONParse(IF fence.body # <<>> THEN fence.body ELSE fence.whole,
                           EmptyObject).ok
           ELSE brace.found => ~JSONParse(brace.whole, EmptyObject).ok

\* C3: when the raw text of an attempt has no parseable JSON, the pass ends at
\* once with the fallback record and no model of a greater index is invoked.
C3_UnparseableEndsPass ==
    Unparseable(aiResponse) =>
        /\ ReturnedFallback
        /\ faults[Len(faults)] = "no-json"
        /\ Len(calls) = Len(faults)
        /\ \A k \in 1..Len(calls) : calls[k] <= Len(faults)

C3_Witness ==
    /\ Unparseable(aiResponse)
    /\ Len(modelsToTry) > 1
    /\ calls = <<1>>
    /\ modelsToTry[1] # modelsToTry[Len(modelsToTry)]
    /\ pc = "done"

\* C4: with the credential absent the pass fails before any attempt: no
\* provider call is made and no record is returned.
C4_MissingCredentialIsFatal ==
    ~geminiKey =>
        /\ calls = <<>>
        /\ pc \in {"start", "done"}
        /\ pc = "done" => outcome = "threw" /\ source = "missing-credential"
        /\ result = NoValue

C4_Witness == ~geminiKey /\ pc = "done" /\ outcome = "threw"

-----------------------------------------------------------------------------
(* Properties of the records.                                              *)

Returned == pc = "done" /\ outcome = "returned"

\* the integer value of a numberOfTrees field
TreesOf(value) == ParseIntOr(value.recommendations.numberOfTrees, 0)

\* the numeric value of an investmentAmount field, as the validator reads it
InvestmentOf(value) == CurrentInvestment(value.recommendations.investmentAmount)

\* the record has a comparison.after object
HasAfter(value) ==
    /\ value.hasRecs
    /\ value.recommendations.comparison.present
    /\ value.recommendations.comparison.hasAfter

\* the numeric value of comparison.after.aqi
AfterAQI(value) == ParseIntOr(value.recommendations.comparison.after.aqi, 0)

\* C5 as stated: every returned record has an hourlyForecast of exactly five
\* entries.
C5_ForecastHasFiveEntries ==
    Returned =>
        /\ result.hourlyForecast.kind = "array"
        /\ Len(result.hourlyForecast.items) = 5

\* C6 as stated: on every returned record the tree count lies within
\* [expectedMin * 0.8, expectedMax * 1.2] of the band of AQIData.aqi (0 when
\* absent).
C6_TreesWithinBand ==
    (Returned /\ result.hasRecs) =>
        /\ 10 * TreesOf(result) >= 8 * ExpectedMinTrees(CurrentAQI(aqiData))
        /\ 10 * TreesOf(result) <= 12 * ExpectedMaxTrees(CurrentAQI(aqiData))

C8_StrictImprovement ==
    (Returned /\ HasAfter(result) /\ TreesOf(result) > 0) =>
        AfterAQI(result) < result.recommendations.comparison.before.aqi

\* Math.round(0.7 * aqi) as JavaScript computes it for aqi in 0..500: the
\* exact rounding, except where the double 0.7 * aqi lies just below a tie
Round07(aqi) ==
    IF aqi \in {45, 85, 165, 175, 325, 335, 345, 355, 365} THEN (7 * aqi) \div 10
    ELSE RoundDiv(7 * aqi, 10)

\* C9: the projected AQI computed by the validator and by the fallback
\* generator is at least round(0.7 * aqi) and at least 0; for aqi = 300 it is
\* below 300 and not below 210.
C9_AtMostThirtyPercent ==
    (Returned /\ HasAfter(result) /\ source \in {"validated", "fallback"}) =>
        /\ ParseInt(result.recommendations.comparison.after.aqi).ok
        /\ AfterAQI(result) >= 0
        /\ AfterAQI(result) >= Round07(CurrentAQI(aqiData))
        /\ source = "fallback" =>
               AfterAQI(result) >= Round07(result.recommendations.comparison.before.aqi)
        /\ CurrentAQI(aqiData) = 300 => AfterAQI(result) < 300 /\ AfterAQI(result) >= 210

\* the cap is reached: a validated record whose projected AQI is exactly
\* round(0.7 * aqi)
C9_Witness ==
    /\ Returned
    /\ source = "validated"
    /\ HasAfter(result)
    /\ CurrentAQI(aqiData) > 300
    /\ TreesOf(result) > 100000
    /\ AfterAQI(result) = Round07(CurrentAQI(aqiData))

\* C10 as stated: on every returned record, implementation.maintenance equals
\* round(0.05 * V), V the numeric value of the record's final investmentAmount.
C10_MaintenanceIsFivePercent ==
    (Returned /\ result.hasRecs /\ result.recommendations.implementation.present) =>
        CurrentInvestment(result.recommendations.implementation.maintenance)
          = RoundDiv(InvestmentOf(result), 20)

\* C11 as stated: on every returned record with a comparison,
\* comparison.before.aqi equals AQIData.aqi, and 0 when AQIData.aqi is absent.
C11_BeforeIsInputAQI ==
    (Returned /\ result.hasRecs /\ result.recommendations.comparison.present) =>
        result.recommendations.comparison.before.aqi = CurrentAQI(aqiData)

\* the number of rupee signs of s
RupeeCount(s) == Cardinality({i \in 1..Len(s) : s[i] = Rupee})

\* s has a dollar sign or one of the tokens USD, INR, Rs, in any case
HasForeignMarker(s) ==
    \E i \in 1..Len(s) :
        \/ s[i] = "$"
        \/ MatchesAt(s, i, <<"u", "s", "d">>)
        \/ MatchesAt(s, i, <<"i", "n", "r">>)
        \/ MatchesAt(s, i, <<"r", "s">>)

\* C12 as stated: on every returned record, investmentAmount and
\* implementation.maintenance each have exactly one rupee sign and no dollar
\* sign, USD, INR or Rs.
C12_OneRupeeMarker ==
    (Returned /\ result.hasRecs) =>
        /\ RupeeCount(result.recommendations.investmentAmount) = 1
        /\ ~HasForeignMarker(result.recommendations.investmentAmount)
        /\ result.recommendations.implementation.present =>
               /\ RupeeCount(result.recommendations.implementation.maintenance) = 1
               /\ ~HasForeignMarker(result.recommendations.implementation.maintenance)

\* C13 as stated: formatRupees applied to its own result gives that result
\* again, for every money value.
C13_FormatRupeesIdempotent ==
    Len(shown) >= 2 => shown[2] = shown[1]

\* C14: validateAndCorrectRecommendations applied to its own result, with the
\* same AQI and any values of Math.random, gives that result again, field by
\* field.
C14_ValidatorIdempotent ==
    source = "validated" =>
        \A variation \in Variations :
            ValidateAndCorrectRecommendations(validated, CurrentAQI(aqiData), variation)
              = validated

\* the first run rewrote the tree count, the amount and the forecast, and the
\* second run changes nothing
C14_Witness ==
    /\ source = "validated"
    /\ validated.hasRecs
    /\ validated.recommendations.numberOfTrees # candidate.recommendations.numberOfTrees
    /\ validated.recommendations.investmentAmount
         # candidate.recommendations.investmentAmount
    /\ \E variation \in Variations :
         ValidateAndCorrectRecommendations(validated, CurrentAQI(aqiData), variation)
           = validated

\* C15: the bands are monotone: for AQI values aqi1 < aqi2 the lower end of
\* the band of aqi1 is at most that of aqi2, and so is the upper end.
C15_TiersMonotone ==
    bands # <<>> =>
        /\ bands[1].expectedMinTrees <= bands[2].expectedMinTrees
        /\ bands[1].expectedMaxTrees <= bands[2].expectedMaxTrees

\* a pair on the two sides of the boundary at 100, bands computed
C15_Witness ==
    /\ aqi1 = 100
    /\ aqi2 = 101
    /\ bands # <<>>
    /\ bands[1].expectedMinTrees = 10000
    /\ bands[2].expectedMinTrees = 15150
    /\ bands[1].expectedMaxTrees = 15000
    /\ bands[2].expectedMaxTrees = 20200

\* C16: for every AQI >= 1 the fallback record has the rounded midpoint of the
\* band of the AQI as numberOfTrees, inside the band, and numberOfTrees * 4000
\* as investmentAmount; for AQI 60 the count is in 6000..9000, for AQI 300 in
\* 75000..90000.
C16_FallbackMidpoint ==
    (built # NoValue /\ probe.hasAqi /\ probe.aqi >= 1) =>
        LET trees == TreesOf(built)
            expectedMin == ExpectedMinTrees(probe.aqi)
            expectedMax == ExpectedMaxTrees(probe.aqi)
        IN  /\ built.recommendations.numberOfTrees = NumToString(trees)
            /\ trees = RoundDiv(expectedMin + expectedMax, 2)
            /\ expectedMin <= trees
            /\ trees <= expectedMax
            /\ built.recommendations.investmentAmount = RupeeAmount(trees * 4000)
            /\ InvestmentOf(built) = trees * 4000
            /\ probe.aqi = 60 => trees >= 6000 /\ trees <= 9000
            /\ probe.aqi = 300 => trees >= 75000 /\ trees <= 90000

\* the fallback record of AQI 300: 82500 trees, 33,00,00,000 rupees
C16_Witness ==
    /\ probe.hasAqi
    /\ probe.aqi = 300
    /\ built # NoValue
    /\ built.recommendations.numberOfTrees = <<"8", "2", "5", "0", "0">>
    /\ built.recommendations.investmentAmount
         = <<Rupee, "3", "3", ",", "0", "0", ",", "0", "0", ",", "0", "0", "0">>

\* C17 as stated: validateAndCorrectRecommendations, with the governing AQI of
\* the AQIData, changes no field of the record createFallbackRecommendation
\* built for it.
C17_FallbackIsFixedPoint ==
    revalidated # NoValue => revalidated = built

\* the last attempt parsed a JSON value that has no recommendations object:
\* an object without the member, a number or null
ParsedShapeless ==
    /\ faults # <<>>
    /\ faults[Len(faults)] \in {"none", "type-error"}
    /\ candidate.kind \in {"object", "number", "null"}
    /\ ~candidate.hasRecs

\* C18 as stated: when the parsed value lacks the top-level shape the pass
\* returns the fallback record, never the parsed value and never an error.
C18_ShapelessGivesFallback ==
    ParsedShapeless => ReturnedFallback

\* C19 as stated: attempts are made one at a time in list order; a "model not
\* found" fault at an index that is not the last is followed by the attempt at
\* the next index; the loop produces the fallback record only after the
\* attempt at the last index failed.
C19_SequentialAttempts ==
    /\ \A k \in 1..Len(calls) : calls[k] = k
    /\ Len(calls) <= Len(faults) + 1
    /\ (faults # <<>> /\ faults[Len(faults)] = "model-not-found"
          /\ Len(faults) < Len(modelsToTry))
       => (pc \in {"loop", "await"} /\ idx = Len(faults) + 1)
    /\ (source = "fallback" /\ faults[Len(faults)] # "no-json")
       => Len(faults) = Len(modelsToTry)

\* C20: every pass ends, after at most as many provider calls as the list has
\* models, and no provider call is made once it has ended.
C20_PassTerminates ==
    /\ <>(pc = "done")
    /\ [](Len(calls) <= Len(modelsToTry))
    /\ [][pc = "done" => calls' = calls]_vars

\* a pass that ended after a call to every model of the longest list
C20_Witness ==
    /\ pc = "done"
    /\ Len(modelsToTry) = MaxModels
    /\ Len(calls) = MaxModels

\* the body of the first fenced block of the last response is parseable JSON
FencedBodyParses ==
    /\ FenceMatch(aiResponse).found
    /\ JSONParse(FenceMatch(aiResponse).body, EmptyObject).ok

\* the span from the first "{" to the last "}" of the last response is
\* parseable JSON
BraceSpanParses ==
    /\ BraceMatch(aiResponse).found
    /\ JSONParse(BraceMatch(aiResponse).whole, EmptyObject).ok

\* C21 as stated: the attempt falls back for want of JSON only if neither the
\* fenced body nor the brace span of the response is parseable; a response
\* with an unparseable or empty fenced block and a valid brace span yields a
\* parsed value.
C21_BraceSpanAfterFence ==
    (aiResponse # NoResponse /\ faults # <<>> /\ faults[Len(faults)] = "no-json") =>
        (~FencedBodyParses /\ ~BraceSpanParses)

C23_CarbonAlwaysRecomputed ==
    (source = "validated" /\ candidate.hasRecs) =>
        LET carbon == validated.recommendations.carbonAnalysis
            final == TreesOf(validated)
        IN  /\ carbon.present
            /\ carbon.annualCarbonSequestration = AnnualCarbon(final)
            /\ carbon.lifetimeCarbonSequestration = LifetimeCarbon(final)
            /\ carbon.airPollutionReduction =
                  Percent(Min(35, Max(20, RoundDiv(2 * final, 10000))))

\* C24 as stated: after validation of a candidate that has a recommendations
\* object, comparison.after.aqi, .pm25, .pm10 and comparison.improvement are
\* the values computed from finalTreeCount and the governing AQI, a candidate
\* without a comparison or without a comparison.after object included.
C24_ComparisonAlwaysRecomputed ==
    (source = "validated" /\ candidate.hasRecs) =>
        LET comparison == validated.recommendations.comparison
            final == TreesOf(validated)
            percent == ImprovementPercent(final)
        IN  /\ comparison.present
            /\ comparison.hasAfter
            /\ comparison.after.aqi =
                  NumToString(ProjectedAQI(CurrentAQI(aqiData), final))
            /\ comparison.improvement = Percent(percent)
            /\ comparison.after.pm25 = PercentReduction(Min(35, Max(20, percent)))
            /\ comparison.after.pm10 = PercentReduction(Min(35, Max(20, percent)))

\* C25 as stated: on every returned record that has a comparison.after
\* object, validated or fallback, the percentage of comparison.after.pm25 and
\* of comparison.after.pm10 is the improvement percentage clamped to 20..35.
C25_PmReductionClamped ==
    (Returned /\ HasAfter(result)) =>
        LET after == result.recommendations.comparison.after
            percent == ParseIntOr(result.recommendations.comparison.improvement, 0)
        IN  /\ ParseIntOr(after.pm25, 0) \in 20..35
            /\ ParseIntOr(after.pm10, 0) \in 20..35
            /\ after.pm25 = PercentReduction(Min(35, Max(20, percent)))
            /\ after.pm10 = PercentReduction(Min(35, Max(20, percent)))

\* C26: validateAndCorrectRecommendations leaves the narrative fields as the
\* candidate supplied them: summary, recommendations.treeTypes, .roi,
\* .humanImpact, implementation.phases, implementation.timeline and
\* comparison.before, for every candidate.
C26_NarrativeUnchanged ==
    source = "validated" =>
        /\ validated.summary = candidate.summary
        /\ validated.hasRecs = candidate.hasRecs
        /\ candidate.hasRecs =>
              LET before == candidate.recommendations
                  after == validated.recommendations
              IN  /\ after.treeTypes = before.treeTypes
                  /\ after.roi = before.roi
                  /\ after.humanImpact = before.humanImpact
                  /\ after.implementation.present = before.implementation.present
                  /\ after.implementation.phases = before.implementation.phases
                  /\ after.implementation.timeline = before.implementation.timeline
                  /\ after.comparison.present = before.comparison.present
                  /\ after.comparison.before = before.comparison.before

\* the validator rewrote comparison.after of a candidate whose
\* comparison.before.aqi is not the AQI of the request, and kept the latter
C26_Witness ==
    /\ source = "validated"
    /\ HasAfter(candidate)
    /\ candidate.recommendations.comparison.before.aqi # CurrentAQI(aqiData)
    /\ validated.recommendations.comparison.after
         # candidate.recommendations.comparison.after
    /\ validated.recommendations.comparison.before
         = candidate.recommendations.comparison.before
    /\ validated.recommendations.implementation.present
    /\ validated.recommendations.implementation.maintenance
         # candidate.recommendations.implementation.maintenance

\* the hourlyForecast of the candidate is missing, not an array, or empty
CandidateLacksForecast ==
    \/ candidate.hourlyForecast.kind # "array"
    \/ candidate.hourlyForecast.items = <<>>

\* C27 as stated: when the hourlyForecast of the candidate is missing, not an
\* array, or empty, the validated record has exactly five forecast entries, for
\* 1 to 5 hours in order, each with an aqi >= 0 within 10 of the governing AQI
\* and the level of the fixed banding of that aqi.
C27_ForecastRecovered ==
    (source = "validated" /\ CandidateLacksForecast) =>
        LET forecast == validated.hourlyForecast
            aqi == CurrentAQI(aqiData)
        IN  /\ forecast.kind = "array"
            /\ Len(forecast.items) = 5
            /\ \A i \in 1..5 :
                 LET entry == forecast.items[i]
                 IN  /\ entry.time[1] = <<"1", "2", "3", "4", "5">>[i]
                     /\ entry.aqi >= 0
                     /\ entry.aqi - aqi \in -10..10
                     /\ entry.level =
                          (IF entry.aqi <= 50 THEN "Good"
                           ELSE IF entry.aqi <= 100 THEN "Moderate"
                           ELSE IF entry.aqi <= 150 THEN "Unhealthy for Sensitive Groups"
                           ELSE IF entry.aqi <= 200 THEN "Unhealthy"
                           ELSE IF entry.aqi <= 300 THEN "Very Unhealthy"
                           ELSE "Hazardous")

\* C28: when the candidate supplies a non-empty hourlyForecast array the
\* validator leaves hourlyForecast unchanged, and its whole result is then the
\* same for all values of Math.random.
C28_SuppliedForecastKept ==
    (source = "validated" /\ ~CandidateLacksForecast) =>
        /\ validated.hourlyForecast = candidate.hourlyForecast
        /\ \A v1, v2 \in Variations :
             ValidateAndCorrectRecommendations(candidate, CurrentAQI(aqiData), v1)
               = ValidateAndCorrectRecommendations(candidate, CurrentAQI(aqiData), v2)

\* a forecast of three entries, kept, on a record whose maintenance the
\* validator rewrote
C28_Witness ==
    /\ source = "validated"
    /\ candidate.hasRecs
    /\ candidate.hourlyForecast.kind = "array"
    /\ Len(candidate.hourlyForecast.items) = 3
    /\ validated.hourlyForecast = candidate.hourlyForecast
    /\ validated # candidate

\* the kinds of fault that are exceptions raised inside an attempt
ExceptionKinds == {"model-not-found", "other", "type-error"}

\* C29: with the credential present (and a non-empty model list) the pass
\* never rejects: every exception raised inside an attempt, a provider fault of
\* either class or the TypeError of validating JSON null, is caught by the
\* attempt loop, after which the pass is at the next model of the list or has
\* returned the fallback record.
C29_NeverRejects ==
    (geminiKey /\ Len(modelsToTry) > 0) =>
        /\ outcome # "threw"
        /\ (faults # <<>> /\ faults[Len(faults)] \in ExceptionKinds) =>
              \/ ReturnedFallback
              \/ /\ outcome = "pending"
                 /\ pc \in {"loop", "await"}
                 /\ idx = Len(faults) + 1
                 /\ idx <= Len(modelsToTry)

\* the TypeError of JSON null on the first model, a provider fault on the
\* second and last one, and the fallback record returned
C29_Witness ==
    /\ geminiKey
    /\ faults = <<"type-error", "other">>
    /\ calls = <<1, 2>>
    /\ ReturnedFallback

\* the call f of the engine was made for the props the component has now, and
\* no later call is in flight
IsCurrentFetch(f) ==
    /\ props.enabled
    /\ props.aqiData.hasAqi
    /\ DataKey(f.aqiData) = DataKey(props.aqiData)
    /\ \A g \in inflight : g.id <= f.id

\* C30 as stated: in the TreeRecommendations component loading is never
\* false while a call for the current data is in flight, and a call that is
\* not for the current data (the city or the AQI changed, or the component was
\* disabled, or a later call replaced it) changes neither recommendations nor
\* loading when it settles.
C30_LateResponseDropped ==
    /\ []((\E f \in inflight : IsCurrentFetch(f)) => loading)
    /\ [][\A f \in inflight :
            (f \notin inflight' /\ ~IsCurrentFetch(f)) =>
                (recommendations' = recommendations /\ loading' = loading)]_vars

====
